---- MODULE Spec2Model ----
(***************************************************************************)
(* Model of src/analysis.py: the one-shot pipeline main() runs over the    *)
(* Airbnb NYC 2019 listing table.                                          *)
(*                                                                         *)
(*   load_data -> remove_price_outliers -> normalize_and_discretize        *)
(*   -> descriptive_statistics + to_csv -> plot_price_distribution         *)
(*   -> plot_price_by_room_and_group -> anova_test + anova_results.txt     *)
(*                                                                         *)
(* A DataFrame is a sequence of rows; a row is a record whose DOMAIN is    *)
(* the set of columns, plus idx, the pandas index label (the position of   *)
(* the record in the CSV file).  DataFrames live in a heap so that         *)
(* in-place column assignment and .copy() can be told apart.               *)
(*                                                                         *)
(* Numbers are exact.  Real-valued results are kept as scaled integers:    *)
(*   q1x4, q3x4      4 * quartile      (interpolation weights are k/4)     *)
(*   lower8, upper8  8 * IQR bound                                         *)
(*   bin edges       6 * edge          (weights are k/3; one unit at this  *)
(*                   scale stands for a rounding error of the float        *)
(*                   interpolation, see QcutEdgeChoices)                   *)
(*   price_zscore    [num, den2] standing for num / sqrt(den2)             *)
(* Not modelled: the last_review column and pass-through columns (no       *)
(* statement checked here reads them), the rendering of the plots, and     *)
(* the ANOVA p-value (the F-distribution tail of the F statistic).         *)
(***************************************************************************)
EXTENDS Integers, Sequences, FiniteSets, TLC

VARIABLES
    csv,      \* the input file AB_NYC_2019.csv: [kind, rows]
    pc,       \* the stage main() executes next, or "done" / "failed"
    heap,     \* the rows of the DataFrame objects: [loaded, filtered], <<>> before creation
    df,       \* main's local variable df: the heap object it is bound to
    bounds,   \* remove_price_outliers' locals q1, q3, lower_bound, upper_bound
    edges,    \* the bin edges pd.qcut computed (6 * edge), <<>> before
    summary,  \* descriptive_statistics' row for price, handed to to_csv
    anova,    \* what anova_test returned: [returned, fnum, fden]
    files,    \* the output files written so far
    err,      \* the exception that ended the run, "none" otherwise
    trace     \* the stages entered so far, in order

vars == <<csv, pc, heap, df, bounds, edges, summary, anova, files, err, trace>>

----------------------------------------------------------------------------
(* Bounds of the inputs *)

MaxRows == 5
MaxPrice == 4
MaxDirtyRows == 2
ExtremePrice == 1000

----------------------------------------------------------------------------
(* Values *)

\* A missing cell of a numeric column (pandas NaN).  Prices and review rates
\* are never negative, so -1 is free to stand for it.
NaN == -1

\* A missing cell of a text column.
NULL == "NaN"

RoomTypes == {"Private room"}
Labels == <<"low", "medium", "high">>

SummaryFile == "summary_statistics.csv"
HistogramFile == "figures/price_histogram.png"
BoxplotFile == "figures/price_boxplot.png"
BarplotFile == "figures/avg_price_barplot.png"
AnovaFile == "anova_results.txt"

Stages == <<"load", "filter", "derive", "describe", "plot_distribution",
            "plot_by_room_and_group", "anova">>

----------------------------------------------------------------------------
(* Sequences *)

RECURSIVE SumSeq(_)
SumSeq(s) == IF s = <<>> THEN 0 ELSE Head(s) + SumSeq(Tail(s))

RECURSIVE InsertSorted(_, _)
InsertSorted(x, s) ==
    IF s = <<>> THEN <<x>>
    ELSE IF x <= Head(s) THEN <<x>> \o s
    ELSE <<Head(s)>> \o InsertSorted(x, Tail(s))

RECURSIVE SortAscending(_)
SortAscending(s) == IF s = <<>> THEN <<>> ELSE InsertSorted(Head(s), SortAscending(Tail(s)))

\* The non-missing prices of a frame, in row order (pandas skips NaN in
\* quantile, mean and std).
PricesOf(frame) ==
    LET present == SelectSeq(frame, LAMBDA r : r.price # NaN)
    IN  [i \in 1..Len(present) |-> present[i].price]

----------------------------------------------------------------------------
(* load_data *)

\* pd.read_csv: one row per record of the file, labelled by its position.
ReadCsv(rows) ==
    [i \in 1..Len(rows) |->
        [idx |-> i,
         price |-> rows[i].price,
         neighbourhood_group |-> rows[i].neighbourhood_group,
         room_type |-> rows[i].room_type,
         reviews_per_month |-> rows[i].reviews_per_month]]

\* A faulty fillna that leaves the column as it is.
FillNaSkipped(frame) == frame

\* df['reviews_per_month'].fillna(0)

FillNa(frame) ==
    [i \in 1..Len(frame) |->
        IF frame[i].reviews_per_month = NaN
        THEN [frame[i] EXCEPT !.reviews_per_month = 0]
        ELSE frame[i]]

\* A faulty dropna whose subset leaves out room_type.
DropNaGroupOnly(frame) ==
    SelectSeq(frame, LAMBDA r : r.neighbourhood_group # NULL)

\* df.dropna(subset=['neighbourhood_group', 'room_type'])
DropNa(frame) ==
    SelectSeq(frame, LAMBDA r : r.neighbourhood_group # NULL /\ r.room_type # NULL)

load_data(rows) == DropNa(FillNa(ReadCsv(rows)))

----------------------------------------------------------------------------
(* remove_price_outliers *)

\* Series.quantile(num/den), interpolation='linear', times den: with
\* h = (n-1)*num/den the result is s[floor h] + frac(h)*(s[floor h + 1] - s[floor h])
\* over the sorted non-missing values s (0-based).  Only called on a non-empty s.
QuantileTimes(s, num, den) ==
    LET pos == num * (Len(s) - 1)
        lo  == (pos \div den) + 1
        r   == pos % den
    IN  IF r = 0 THEN den * s[lo]
        ELSE den * s[lo] + r * (s[lo + 1] - s[lo])

\* q1, q3, iqr, lower_bound, upper_bound.  Of a column with no value the
\* quantiles and the bounds are NaN (defined = FALSE).
PriceBounds(frame) ==
    LET s == SortAscending(PricesOf(frame))
    IN  IF s = <<>>
        THEN [defined |-> FALSE, q1x4 |-> 0, q3x4 |-> 0, lower8 |-> 0, upper8 |-> 0]
        ELSE LET q1 == QuantileTimes(s, 1, 4)
                 q3 == QuantileTimes(s, 3, 4)
             IN  [defined |-> TRUE, q1x4 |-> q1, q3x4 |-> q3,
                  lower8 |-> 5 * q1 - 3 * q3,     \* 8 * (q1 - 1.5 * (q3 - q1))
                  upper8 |-> 5 * q3 - 3 * q1]     \* 8 * (q3 + 1.5 * (q3 - q1))

\* A faulty selection with both comparisons strict.
WithinBoundsStrict(p, b) ==
    /\ b.defined
    /\ p # NaN
    /\ 8 * p > b.lower8
    /\ 8 * p < b.upper8

\* (df[price_col] >= lower_bound) & (df[price_col] <= upper_bound): a comparison
\* with NaN, on either side, is False.
WithinBounds(p, b) ==
    /\ b.defined
    /\ p # NaN
    /\ 8 * p >= b.lower8
    /\ 8 * p <= b.upper8

remove_price_outliers(frame) ==
    LET b == PriceBounds(frame)
    IN  SelectSeq(frame, LAMBDA r : WithinBounds(r.price, b))

\* A faulty filter that drops the rows from its argument in place.
FilterTargetInPlace == "loaded"

\* The object the filtered rows are stored in: .copy() of the boolean
\* selection is a DataFrame of its own.
FilterTarget == "filtered"

----------------------------------------------------------------------------
(* normalize_and_discretize *)

\* (df[price_col] - mean) / std with std = std(ddof=0), as num / sqrt(den2):
\* (p - S/n) / (sqrt(n*SS - S*S) / n) = (n*p - S) / sqrt(n*SS - S*S).
\* den2 = 0 is a zero standard deviation: the division gives 0/0 = NaN and
\* numpy raises nothing.
SumSquares(prices) == SumSeq([i \in 1..Len(prices) |-> prices[i] * prices[i]])

PopVarTimesN2(prices) ==
    Len(prices) * SumSquares(prices) - SumSeq(prices) * SumSeq(prices)

ZScore(p, prices) ==
    [num |-> Len(prices) * p - SumSeq(prices), den2 |-> PopVarTimesN2(prices)]

\* df['price_zscore'] = ... : a column added to the frame itself.
WithZScore(frame, prices) ==
    [i \in 1..Len(frame) |->
        [price_zscore |-> ZScore(frame[i].price, prices)] @@ frame[i]]

\* The value (times 6) float interpolation can return for the k/3 quantile.
\* qcut takes its quantiles from np.linspace(0, 1, 4) and pandas hands them to
\* np.percentile, so the position (n-1)*k/3 is computed in floating point.
\*  - When the exact position is not a whole number the edge lies strictly
\*    between two neighbouring sorted prices (or equals both): a rounding
\*    error moves it past no price and past no other edge, and the exact
\*    value is stored.
\*  - When the exact position is a whole number h (n = 1, 4, 7, ...) the edge
\*    is exactly the price s[h], and a position rounded just below or above h
\*    interpolates towards the neighbouring price: the result is s[h], or
\*    just below it when s[h-1] < s[h], or just above it when s[h] < s[h+1].
\*    Which of these a build returns depends on its numpy; all are allowed.
QcutEdgeSet(s, k) ==
    LET pos == k * (Len(s) - 1)
        lo  == (pos \div 3) + 1
    IN  IF pos % 3 # 0 THEN {2 * QuantileTimes(s, k, 3)}
        ELSE {6 * s[lo]}
             \cup (IF lo > 1 /\ s[lo - 1] < s[lo] THEN {6 * s[lo] - 1} ELSE {})
             \cup (IF lo < Len(s) /\ s[lo] < s[lo + 1] THEN {6 * s[lo] + 1} ELSE {})

\* The bin edges qcut(q=3) can compute: the quantiles 0, 1/3, 2/3, 1 of the
\* non-missing values.  Of no value every quantile is NaN (no edges).
QcutEdgeChoices(prices) ==
    LET s == SortAscending(prices)
    IN  IF s = <<>> THEN {<<>>}
        ELSE {<<6 * s[1], e1, e2, 6 * s[Len(s)]>> :
                  e1 \in QcutEdgeSet(s, 1), e2 \in QcutEdgeSet(s, 2)}

\* A faulty check that lets repeated edges through (duplicates is 'raise').
BinEdgesUniqueUnchecked(e) == TRUE

\* _bins_to_cuts: with fewer distinct edges than edges, duplicates='raise'
\* raises ValueError("Bin edges must be unique").  Four NaN edges are one
\* distinct value.
BinEdgesUnique(e) ==
    /\ Len(e) = 4
    /\ \A i, j \in 1..4 : i # j => e[i] # e[j]

\* A faulty binning without include_lowest: the minimum gets no bin.
BinIndexOpenLowest(p, e) ==
    Cardinality({i \in 1..Len(e) : e[i] < 6 * p})

\* bins.searchsorted(x, side='left'), and include_lowest: ids[x == bins[0]] = 1.
BinIndex(p, e) ==
    IF 6 * p = e[1] THEN 1
    ELSE Cardinality({i \in 1..Len(e) : e[i] < 6 * p})

\* A faulty labelling that closes the bins on the left (right=False).
BinLabelLeftClosed(p, e) ==
    LET ids == Cardinality({i \in 1..Len(e) : e[i] <= 6 * p})
    IN  IF ids \in 1..3 THEN Labels[ids] ELSE NULL

\* labels[ids - 1]; ids 0 or len(bins) (outside every bin) is a missing label.
BinLabel(p, e) ==
    LET ids == BinIndex(p, e)
    IN  IF ids \in 1..3 THEN Labels[ids] ELSE NULL

\* df['price_bin'] = pd.qcut(...)
WithPriceBin(frame, e) ==
    [i \in 1..Len(frame) |->
        [price_bin |-> BinLabel(frame[i].price, e)] @@ frame[i]]

\* A faulty main that derives from the loaded frame, not the filtered one.
DeriveSourceLoaded(h, ref) == h.loaded

\* main hands normalize_and_discretize the frame remove_price_outliers returned,
\* and the statistics are taken over that frame's own price column.
DeriveSource(h, ref) == h[ref]

----------------------------------------------------------------------------
(* descriptive_statistics *)

\* describe() of the price column: count, min, quartiles, max (the mean and
\* the sample standard deviation are left as the sums they are computed from).
descriptive_statistics(frame) ==
    LET s == SortAscending(PricesOf(frame))
    IN  IF s = <<>> THEN [count |-> 0]
        ELSE [count |-> Len(s), sum |-> SumSeq(s), sumsq |-> SumSquares(s),
              min |-> s[1], q25x4 |-> QuantileTimes(s, 1, 4),
              q50x4 |-> QuantileTimes(s, 2, 4), q75x4 |-> QuantileTimes(s, 3, 4),
              max |-> s[Len(s)]]

----------------------------------------------------------------------------
(* anova_test *)

\* df.groupby('neighbourhood_group'): one group per value that occurs; rows
\* with a missing key belong to no group.
GroupNames(frame) ==
    {frame[i].neighbourhood_group : i \in 1..Len(frame)} \ {NULL}

\* group['price'].values
GroupPrices(frame, g) ==
    LET members == SelectSeq(frame, LAMBDA r : r.neighbourhood_group = g)
    IN  [i \in 1..Len(members) |-> members[i].price]

RECURSIVE ProductOver(_, _)
ProductOver(frame, gs) ==
    IF gs = {} THEN 1
    ELSE LET g == CHOOSE x \in gs : TRUE
         IN  Len(GroupPrices(frame, g)) * ProductOver(frame, gs \ {g})

\* sum over the groups of (sum of the group)^2 / (size of the group), times d
RECURSIVE GroupTermsTimes(_, _, _)
GroupTermsTimes(frame, gs, d) ==
    IF gs = {} THEN 0
    ELSE LET g  == CHOOSE x \in gs : TRUE
             gp == GroupPrices(frame, g)
         IN  SumSeq(gp) * SumSeq(gp) * (d \div Len(gp))
             + GroupTermsTimes(frame, gs \ {g}, d)

\* A faulty f_oneway that accepts a single sample.
TooFewSamplesOnlyNone(k) == k < 1

\* scipy.stats.f_oneway: "if len(samples) < 2: raise TypeError" (scipy 1.5 and
\* later; sns.histplot, which the script calls, is younger than that release).
TooFewSamples(k) == k < 2

\* F = (ssbn / (k-1)) / (sswn / (N-k)) as the fraction fnum / fden, with
\* ssbn = sum_g S_g^2/n_g - S^2/N and sswn = SS - sum_g S_g^2/n_g, both times
\* d = N * prod_g n_g.  fden = 0 is a division by zero (scipy returns inf or nan).
FStatistic(frame) ==
    LET gs  == GroupNames(frame)
        all == PricesOf(frame)
        n   == Len(all)
        k   == Cardinality(gs)
        d   == n * ProductOver(frame, gs)
        gt  == GroupTermsTimes(frame, gs, d)
        ssb == gt - SumSeq(all) * SumSeq(all) * (d \div n)
        ssw == SumSquares(all) * d - gt
    IN  [returned |-> TRUE, fnum |-> ssb * (n - k), fden |-> ssw * (k - 1)]

NoResult == [returned |-> FALSE, fnum |-> 0, fden |-> 0]

----------------------------------------------------------------------------
(* The input files considered *)

RawRecord(p, g, t, m) ==
    [price |-> p, neighbourhood_group |-> g, room_type |-> t, reviews_per_month |-> m]

Table(rows) == [kind |-> "table", rows |-> rows]

\* Records with cells missing, in every combination.
DirtyPrices == {NaN, 1, 2}
DirtyRecords ==
    {RawRecord(p, g, t, m) : p \in DirtyPrices,
                             g \in {"Brooklyn", NULL},
                             t \in RoomTypes \cup {NULL},
                             m \in {NaN, 1}}

\* Complete records: n prices in any order, the first k records in one
\* neighbourhood group and the rest in the other (k = 0: a single group).
CompleteRows(prices, k) ==
    [i \in 1..Len(prices) |->
        RawRecord(prices[i], IF i <= k THEN "Brooklyn" ELSE "Manhattan",
                  "Private room", 1)]

\* One listing with an extreme price, put after complete records.
ExtremeRecord == RawRecord(ExtremePrice, "Manhattan", "Private room", 1)

\* The example of the specification: prices [10, 20, 20, 30, 1000].
ExamplePrices == <<10, 20, 20, 30, 1000>>
ExampleRows == CompleteRows(ExamplePrices, 1)

\* The file is unreadable, or lacks a column, or holds a table of at least one
\* record: up to MaxDirtyRows records with missing cells, up to MaxRows complete
\* records, complete records and an extreme one, or the example.
IsInput(file) ==
    \/ file \in {[kind |-> "unreadable", rows |-> <<>>],
                 [kind |-> "no_columns", rows |-> <<>>]}
    \/ \E n \in 1..MaxDirtyRows : \E rows \in [1..n -> DirtyRecords] :
           file = Table(rows)
    \/ \E n \in 1..MaxRows : \E prices \in [1..n -> 1..MaxPrice] : \E k \in {0, 1} :
           file = Table(CompleteRows(prices, k))
    \/ \E n \in 1..(MaxRows - 1) : \E prices \in [1..n -> 1..MaxPrice] : \E k \in {0, 1} :
           file = Table(Append(CompleteRows(prices, k), ExtremeRecord))
    \/ file = Table(ExampleRows)

----------------------------------------------------------------------------
(* main *)

Init ==
    /\ IsInput(csv)
    /\ pc = "load"
    /\ heap = [loaded |-> <<>>, filtered |-> <<>>]
    /\ df = "none"
    /\ bounds = [defined |-> FALSE, q1x4 |-> 0, q3x4 |-> 0, lower8 |-> 0, upper8 |-> 0]
    /\ edges = <<>>
    /\ summary = [count |-> 0]
    /\ anova = NoResult
    /\ files = {}
    /\ err = "none"
    /\ trace = <<>>

\* df = load_data(csv_path)
Load ==
    /\ pc = "load"
    /\ csv.kind = "table"
    /\ heap' = [heap EXCEPT !.loaded = load_data(csv.rows)]
    /\ df' = "loaded"
    /\ pc' = "filter"
    /\ trace' = Append(trace, "load")
    /\ UNCHANGED <<csv, bounds, edges, summary, anova, files, err>>

\* pd.read_csv raises on a file it cannot read; df['last_review'] (and the
\* columns after it) raise KeyError on a table without the column.
LoadFail ==
    /\ pc = "load"
    /\ csv.kind # "table"
    /\ err' = (IF csv.kind = "unreadable" THEN "FileNotFoundError" ELSE "KeyError")
    /\ pc' = "failed"
    /\ trace' = Append(trace, "load")
    /\ UNCHANGED <<csv, heap, df, bounds, edges, summary, anova, files>>

\* df = remove_price_outliers(df)
Filter ==
    /\ pc = "filter"
    /\ bounds' = PriceBounds(heap[df])
    /\ heap' = [heap EXCEPT ![FilterTarget] = remove_price_outliers(heap[df])]
    /\ df' = FilterTarget
    /\ pc' = "derive"
    /\ trace' = Append(trace, "filter")
    /\ UNCHANGED <<csv, edges, summary, anova, files, err>>

\* df = normalize_and_discretize(df), both column assignments done
Derive ==
    /\ pc = "derive"
    /\ LET prices == PricesOf(DeriveSource(heap, df))
           scored == WithZScore(heap[df], prices)
       IN  \E e \in QcutEdgeChoices(prices) :
               /\ BinEdgesUnique(e)
               /\ heap' = [heap EXCEPT ![df] = WithPriceBin(scored, e)]
               /\ edges' = e
    /\ pc' = "describe"
    /\ trace' = Append(trace, "derive")
    /\ UNCHANGED <<csv, df, bounds, summary, anova, files, err>>

\* normalize_and_discretize: price_zscore is assigned, then pd.qcut raises
DeriveFail ==
    /\ pc = "derive"
    /\ LET prices == PricesOf(DeriveSource(heap, df))
           scored == WithZScore(heap[df], prices)
       IN  \E e \in QcutEdgeChoices(prices) :
               /\ ~BinEdgesUnique(e)
               /\ heap' = [heap EXCEPT ![df] = scored]
               /\ edges' = e
    /\ err' = "ValueError"
    /\ pc' = "failed"
    /\ trace' = Append(trace, "derive")
    /\ UNCHANGED <<csv, df, bounds, summary, anova, files>>

\* summary_stats = descriptive_statistics(df); summary_stats.to_csv(...)
Describe ==
    /\ pc = "describe"
    /\ summary' = descriptive_statistics(heap[df])
    /\ files' = files \cup {SummaryFile}
    /\ pc' = "plot_distribution"
    /\ trace' = Append(trace, "describe")
    /\ UNCHANGED <<csv, heap, df, bounds, edges, anova, err>>

\* plot_price_distribution(df, output_dir)
PlotDistribution ==
    /\ pc = "plot_distribution"
    /\ files' = files \cup {HistogramFile, BoxplotFile}
    /\ pc' = "plot_by_room_and_group"
    /\ trace' = Append(trace, "plot_distribution")
    /\ UNCHANGED <<csv, heap, df, bounds, edges, summary, anova, err>>

\* plot_price_by_room_and_group(df, output_dir)
PlotByRoomAndGroup ==
    /\ pc = "plot_by_room_and_group"
    /\ files' = files \cup {BarplotFile}
    /\ pc' = "anova"
    /\ trace' = Append(trace, "plot_by_room_and_group")
    /\ UNCHANGED <<csv, heap, df, bounds, edges, summary, anova, err>>

\* f_stat, p_val = anova_test(df); with open('anova_results.txt', 'w') ...
Anova ==
    /\ pc = "anova"
    /\ ~TooFewSamples(Cardinality(GroupNames(heap[df])))
    /\ anova' = FStatistic(heap[df])
    /\ files' = files \cup {AnovaFile}
    /\ pc' = "done"
    /\ trace' = Append(trace, "anova")
    /\ UNCHANGED <<csv, heap, df, bounds, edges, summary, err>>

\* A faulty main that opens anova_results.txt before it calls anova_test.
FilesAfterAnovaErrorOpened(f) == f \cup {AnovaFile}

\* anova_test raises before main reaches open('anova_results.txt', 'w').
FilesAfterAnovaError(f) == f

AnovaFail ==
    /\ pc = "anova"
    /\ TooFewSamples(Cardinality(GroupNames(heap[df])))
    /\ err' = "TypeError"
    /\ files' = FilesAfterAnovaError(files)
    /\ pc' = "failed"
    /\ trace' = Append(trace, "anova")
    /\ UNCHANGED <<csv, heap, df, bounds, edges, summary, anova>>

Next ==
    \/ Load
    \/ LoadFail
    \/ Filter
    \/ Derive
    \/ DeriveFail
    \/ Describe
    \/ PlotDistribution
    \/ PlotByRoomAndGroup
    \/ Anova
    \/ AnovaFail

Spec == Init /\ [][Next]_vars

----------------------------------------------------------------------------
(* Vocabulary of the statements below *)

Entered(stage) == \E i \in 1..Len(trace) : trace[i] = stage

FailedAt(stage) == pc = "failed" /\ trace # <<>> /\ trace[Len(trace)] = stage

Completed(stage) == Entered(stage) /\ ~FailedAt(stage)

BaseColumns == {"idx", "price", "neighbourhood_group", "room_type", "reviews_per_month"}

RowPrices(frame) == {frame[i].price : i \in 1..Len(frame)}

CountBin(frame, label) ==
    Cardinality({i \in 1..Len(frame) : frame[i].price_bin = label})

HasBins(frame) ==
    \A i \in 1..Len(frame) :
        /\ "price_bin" \in DOMAIN frame[i]
        /\ frame[i].price_bin \in {"low", "medium", "high"}

BinRank(label) == CASE label = "low" -> 1 [] label = "medium" -> 2 [] OTHER -> 3

CeilDiv(a, b) == (a + b - 1) \div b

AbsDiff(a, b) == IF a >= b THEN a - b ELSE b - a

\* The linear-interpolation quantile k/4 of the ascending sequence s, times 4:
\* the weighted mean of the two order statistics around position (n-1)*k/4.
InterpolatedQuartileTimes4(s, k) ==
    LET pos == k * (Len(s) - 1)
        lo  == pos \div 4
        w   == pos % 4
        hi  == IF lo + 2 <= Len(s) THEN lo + 2 ELSE Len(s)
    IN  (4 - w) * s[lo + 1] + w * s[hi]

----------------------------------------------------------------------------
(* Statements about load_data *)

\* C1: the dataset load_data returns holds no record whose neighbourhood_group
\* or room_type is missing, and holds every input record in which both are
\* present, with those fields as in the input: exactly the records missing
\* either field are excluded.
C1_LoadExcludesExactlyIncomplete ==
    Completed("load") =>
        /\ \A j \in 1..Len(heap.loaded) :
               /\ heap.loaded[j].neighbourhood_group # NULL
               /\ heap.loaded[j].room_type # NULL
               /\ heap.loaded[j].idx \in 1..Len(csv.rows)
               /\ heap.loaded[j].neighbourhood_group
                      = csv.rows[heap.loaded[j].idx].neighbourhood_group
               /\ heap.loaded[j].room_type = csv.rows[heap.loaded[j].idx].room_type
               /\ heap.loaded[j].price = csv.rows[heap.loaded[j].idx].price
        /\ \A i \in 1..Len(csv.rows) :
               (csv.rows[i].neighbourhood_group # NULL /\ csv.rows[i].room_type # NULL)
                   <=> Cardinality({j \in 1..Len(heap.loaded) : heap.loaded[j].idx = i}) = 1
        /\ \A i \in 1..Len(csv.rows) :
               Cardinality({j \in 1..Len(heap.loaded) : heap.loaded[j].idx = i}) <= 1

\* load_data has returned a dataset that kept one record and excluded one that
\* has a neighbourhood_group and no room_type.
C1_Witness ==
    /\ pc = "filter"
    /\ Len(heap.loaded) = 1
    /\ Len(csv.rows) = 2
    /\ \E i \in 1..Len(csv.rows) :
           csv.rows[i].neighbourhood_group # NULL /\ csv.rows[i].room_type = NULL

\* C2: after load_data no record has a missing reviews_per_month: a record
\* whose value was missing in the input has 0, a record whose value was present
\* keeps it.
C2_ReviewsPerMonthFilled ==
    Completed("load") =>
        \A j \in 1..Len(heap.loaded) :
            LET before == csv.rows[heap.loaded[j].idx].reviews_per_month
                after  == heap.loaded[j].reviews_per_month
            IN  /\ after # NaN
                /\ before = NaN => after = 0
                /\ before # NaN => after = before

\* load_data has returned a record whose value was missing and one whose value
\* was present.
C2_Witness ==
    /\ pc = "filter"
    /\ \E j \in 1..Len(heap.loaded) :
           csv.rows[heap.loaded[j].idx].reviews_per_month = NaN
    /\ \E j \in 1..Len(heap.loaded) :
           csv.rows[heap.loaded[j].idx].reviews_per_month = 1

----------------------------------------------------------------------------
(* Statements about remove_price_outliers *)

\* C3: remove_price_outliers computes Q1 and Q3 once, by linear interpolation
\* over the prices of its input, and returns exactly the input records with
\* Q1 - 1.5*IQR <= price <= Q3 + 1.5*IQR, both ends inclusive; the bounds are
\* those of the input, not of the result.  For [10, 20, 20, 30, 1000]: Q1 = 20,
\* Q3 = 30, upper bound 45, and the 4 records other than 1000 are kept.
C3_IqrFilter ==
    Completed("filter") =>
        LET s == SortAscending(PricesOf(heap.loaded))
        IN  /\ bounds.defined <=> s # <<>>
            /\ bounds.defined =>
                   /\ bounds.q1x4 = InterpolatedQuartileTimes4(s, 1)
                   /\ bounds.q3x4 = InterpolatedQuartileTimes4(s, 3)
                   /\ bounds.lower8 = 2 * bounds.q1x4 - 3 * (bounds.q3x4 - bounds.q1x4)
                   /\ bounds.upper8 = 2 * bounds.q3x4 + 3 * (bounds.q3x4 - bounds.q1x4)
            /\ LET inside(r) == /\ bounds.defined
                                /\ r.price # NaN
                                /\ bounds.lower8 <= 8 * r.price
                                /\ 8 * r.price <= bounds.upper8
                   kept == SelectSeq(heap.loaded, inside)
               IN  /\ Len(heap.filtered) = Len(kept)
                   /\ \A j \in 1..Len(kept) :
                          \A c \in BaseColumns : heap.filtered[j][c] = kept[j][c]
            /\ csv.rows = ExampleRows =>
                   /\ bounds.q1x4 = 4 * 20
                   /\ bounds.q3x4 = 4 * 30
                   /\ bounds.upper8 = 8 * 45
                   /\ Len(heap.filtered) = 4
                   /\ RowPrices(heap.filtered) = {10, 20, 30}

\* The filter has run on the example and kept 4 of its 5 records.
C3_Witness ==
    /\ pc = "derive"
    /\ csv.rows = ExampleRows
    /\ Len(heap.loaded) = 5
    /\ Len(heap.filtered) = 4

----------------------------------------------------------------------------
(* Statements about normalize_and_discretize *)

AllPricesEqual(frame) == Cardinality(RowPrices(frame)) = 1

\* normalize_and_discretize has been called on a dataset whose price column has
\* a population standard deviation of zero.
ZeroDeviationAtDerive == Entered("derive") /\ AllPricesEqual(heap.filtered)

\* C4, as claimed: with a zero standard deviation normalize_and_discretize
\* fails with a DegenerateDistributionError the caller sees.
C4_AsClaimed ==
    ZeroDeviationAtDerive =>
        /\ FailedAt("derive")
        /\ err = "DegenerateDistributionError"

\* C4, amended: with a zero standard deviation normalize_and_discretize fails
\* with the ValueError pd.qcut raises for repeated bin edges; the division by
\* zero itself raises nothing and has by then stored NaN as every price_zscore
\* of the dataset; no price_bin is assigned, the run ends at this stage and no
\* output file is written.
C4_ZeroDeviationRaisesValueError ==
    ZeroDeviationAtDerive =>
        /\ FailedAt("derive")
        /\ err = "ValueError"
        /\ files = {}
        /\ ~BinEdgesUnique(edges)
        /\ \A i \in 1..Len(heap.filtered) :
               /\ "price_zscore" \in DOMAIN heap.filtered[i]
               /\ heap.filtered[i].price_zscore = [num |-> 0, den2 |-> 0]
               /\ "price_bin" \notin DOMAIN heap.filtered[i]

\* normalize_and_discretize has failed on three or more records of one price.
C4_Witness ==
    /\ ZeroDeviationAtDerive
    /\ Len(heap.filtered) >= 3
    /\ pc = "failed"

\* The position of both inner quantiles among the sorted prices is fractional,
\* so no edge of this dataset depends on float rounding (see QcutEdgeSet).
EdgesExact(frame) == (Len(frame) - 1) % 3 # 0

\* C6, as claimed: with at least 3 distinct prices every record gets a
\* price_bin, all 3 categories are non-empty and the sizes of any two differ by
\* at most ceil(N/3).  Stated over the datasets whose edges are exact, so that
\* no violation rests on a rounding a build may not make.
C6_AsClaimed ==
    (/\ Entered("derive")
     /\ Cardinality(RowPrices(heap.filtered)) >= 3
     /\ EdgesExact(heap.filtered)) =>
        /\ HasBins(heap.filtered)
        /\ \A a, b \in {"low", "medium", "high"} :
               /\ CountBin(heap.filtered, a) > 0
               /\ AbsDiff(CountBin(heap.filtered, a), CountBin(heap.filtered, b))
                      <= CeilDiv(Len(heap.filtered), 3)

\* C6, amended: normalize_and_discretize either fails with ValueError, when the
\* edges min, 1/3-quantile, 2/3-quantile, max it computed are not four distinct
\* values (also for some datasets with 3 or more distinct prices), and then
\* assigns no price_bin; or the edges are strictly increasing and every record
\* gets one price_bin in {low, medium, high}, with low and high non-empty.
\* medium may be empty, and the sizes are not within ceil(N/3) of each other.
C6_BinsOrValueError ==
    Entered("derive") =>
        \/ /\ FailedAt("derive")
           /\ err = "ValueError"
           /\ ~BinEdgesUnique(edges)
           /\ \A i \in 1..Len(heap.filtered) : "price_bin" \notin DOMAIN heap.filtered[i]
        \/ /\ Completed("derive")
           /\ Len(edges) = 4
           /\ edges[1] < edges[2] /\ edges[2] < edges[3] /\ edges[3] < edges[4]
           /\ HasBins(heap.filtered)
           /\ CountBin(heap.filtered, "low") > 0
           /\ CountBin(heap.filtered, "high") > 0
           /\ CountBin(heap.filtered, "low") + CountBin(heap.filtered, "medium")
                  + CountBin(heap.filtered, "high") = Len(heap.filtered)

\* Five records with 3 distinct prices have been binned, no edge depending on
\* float rounding, and medium is empty: sizes 3, 0, 2 with ceil(5/3) = 2.
C6_Witness ==
    /\ Completed("derive")
    /\ Len(heap.filtered) = 5
    /\ EdgesExact(heap.filtered)
    /\ Cardinality(RowPrices(heap.filtered)) = 3
    /\ CountBin(heap.filtered, "low") = 3
    /\ CountBin(heap.filtered, "medium") = 0
    /\ CountBin(heap.filtered, "high") = 2

\* C7: a price equal to the 1/3-quantile edge is labelled low, a price equal to
\* the 2/3-quantile edge medium, the maximum price high and the minimum price
\* low; labels are monotone in price.
C7_EdgeMembership ==
    Completed("derive") =>
        LET f == heap.filtered
        IN  /\ HasBins(f)
            /\ \A i \in 1..Len(f) :
                   /\ 6 * f[i].price = edges[2] => f[i].price_bin = "low"
                   /\ 6 * f[i].price = edges[3] => f[i].price_bin = "medium"
                   /\ (\A j \in 1..Len(f) : f[j].price <= f[i].price)
                          => f[i].price_bin = "high"
                   /\ (\A j \in 1..Len(f) : f[j].price >= f[i].price)
                          => f[i].price_bin = "low"
            /\ \A i, j \in 1..Len(f) :
                   f[i].price <= f[j].price
                       => BinRank(f[i].price_bin) <= BinRank(f[j].price_bin)

\* Records have been binned where one price is the 1/3-quantile edge and
\* another the 2/3-quantile edge.
C7_Witness ==
    /\ Completed("derive")
    /\ \E i \in 1..Len(heap.filtered) : 6 * heap.filtered[i].price = edges[2]
    /\ \E i \in 1..Len(heap.filtered) : 6 * heap.filtered[i].price = edges[3]

----------------------------------------------------------------------------
(* Statements about anova_test *)

\* anova_test has been called on a dataset with fewer than 2 neighbourhood groups.
FewGroupsAtAnova ==
    /\ Entered("anova")
    /\ Cardinality({heap.filtered[i].neighbourhood_group : i \in 1..Len(heap.filtered)}) < 2

\* C5, as claimed: with fewer than 2 non-empty neighbourhood_group partitions
\* anova_test fails with an InsufficientGroupsError and returns no pair.
C5_AsClaimed ==
    FewGroupsAtAnova =>
        /\ FailedAt("anova")
        /\ err = "InsufficientGroupsError"
        /\ ~anova.returned

\* C5, amended: with fewer than 2 neighbourhood_group partitions anova_test
\* fails with the TypeError scipy's f_oneway raises for fewer than two samples,
\* returns no (F-statistic, p-value) pair and anova_results.txt is not written;
\* with 2 or more it returns a pair.  A partition is never empty: groupby
\* yields a group only for a value that occurs.
C5_FewGroupsRaiseTypeError ==
    /\ FewGroupsAtAnova =>
           /\ FailedAt("anova")
           /\ err = "TypeError"
           /\ ~anova.returned
           /\ AnovaFile \notin files
    /\ (Entered("anova") /\ ~FewGroupsAtAnova) =>
           /\ pc = "done"
           /\ anova.returned
    /\ Entered("anova") =>
           \A g \in GroupNames(heap.filtered) : Len(GroupPrices(heap.filtered, g)) >= 1

\* anova_test has failed on a dataset of 3 or more records in one group.
C5_Witness ==
    /\ FewGroupsAtAnova
    /\ pc = "failed"
    /\ Len(heap.filtered) >= 3

----------------------------------------------------------------------------
(* Statements about main *)

IsPrefix(s, t) == Len(s) <= Len(t) /\ \A i \in 1..Len(s) : s[i] = t[i]

\* C8: outlier filtering completes before the z-score and bin computation
\* starts; the mean, the standard deviation and the bin edges behind
\* price_zscore and price_bin are those of the prices that survived the filter
\* (the z-scores of the surviving records have mean 0 and population variance
\* 1, the outer edges are their minimum and maximum), not those of the loaded
\* prices; the stages run in the order load, filter, derive, descriptive
\* statistics, plots, ANOVA.
C8_FilterBeforeDerive ==
    /\ IsPrefix(trace, Stages)
    /\ Entered("derive") => Completed("filter")
    /\ Completed("derive") =>
           LET f    == heap.filtered
               nums == [i \in 1..Len(f) |-> f[i].price_zscore.num]
           IN  /\ bounds.defined
               /\ \A i \in 1..Len(f) :
                      /\ bounds.lower8 <= 8 * f[i].price
                      /\ 8 * f[i].price <= bounds.upper8
                      /\ f[i].price_zscore.den2 > 0
                      /\ f[i].price_zscore.den2 = f[1].price_zscore.den2
                      /\ \A j \in 1..Len(f) :
                             f[i].price_zscore.num - f[j].price_zscore.num
                                 = Len(f) * (f[i].price - f[j].price)
               /\ SumSeq(nums) = 0
               /\ SumSquares(nums) = Len(f) * f[1].price_zscore.den2
               /\ \A i \in 1..Len(f) :
                      edges[1] <= 6 * f[i].price /\ 6 * f[i].price <= edges[4]
               /\ \E i \in 1..Len(f) : edges[1] = 6 * f[i].price
               /\ \E i \in 1..Len(f) : edges[4] = 6 * f[i].price

\* The z-scores and bins have been computed after the filter removed a record,
\* so the loaded prices and the surviving ones differ.
C8_Witness ==
    /\ Completed("derive")
    /\ Len(heap.filtered) < Len(heap.loaded)
    /\ Len(heap.filtered) >= 3

\* C9: remove_price_outliers returns a new dataset and leaves the one passed to
\* it unchanged (same records, values and order); the records it returns are in
\* the order of the input, each with its fields unmodified; the columns
\* normalize_and_discretize adds to the returned dataset do not appear in the
\* input dataset.
C9_FilterLeavesInputUnchanged ==
    Completed("filter") =>
        /\ df = "filtered"
        /\ heap.loaded = load_data(csv.rows)
        /\ \A i \in 1..Len(heap.loaded) : DOMAIN heap.loaded[i] = BaseColumns
        /\ \A j \in 1..Len(heap.filtered) :
               /\ \E i \in 1..Len(heap.loaded) :
                      /\ heap.loaded[i].idx = heap.filtered[j].idx
                      /\ \A c \in BaseColumns : heap.filtered[j][c] = heap.loaded[i][c]
               /\ j > 1 => heap.filtered[j - 1].idx < heap.filtered[j].idx

\* Columns have been added to a returned dataset that is shorter than the input
\* dataset and not in ascending order of price.
C9_Witness ==
    /\ Completed("derive")
    /\ Len(heap.filtered) < Len(heap.loaded)
    /\ \E j \in 2..Len(heap.filtered) : heap.filtered[j - 1].price > heap.filtered[j].price
    /\ \A j \in 1..Len(heap.filtered) : "price_bin" \in DOMAIN heap.filtered[j]

\* The output files of the stages before the given one.
WrittenBefore(stage) ==
    CASE stage \in {"load", "filter", "derive", "describe"} -> {}
      [] stage = "plot_distribution" -> {SummaryFile}
      [] stage = "plot_by_room_and_group" -> {SummaryFile, HistogramFile, BoxplotFile}
      [] OTHER -> {SummaryFile, HistogramFile, BoxplotFile, BarplotFile}

\* C10: a stage that fails ends the run: no later stage executes and no later
\* output file is written, and the outputs written before it remain.  When the
\* ANOVA fails, summary_statistics.csv and the three image files are written and
\* anova_results.txt is not; when loading fails, no output file is written.
C10_FailureEndsRun ==
    /\ (pc = "failed") <=> (err # "none")
    /\ pc = "failed" =>
           /\ ~ENABLED Next
           /\ trace # <<>>
           /\ files = WrittenBefore(trace[Len(trace)])
    /\ FailedAt("anova") =>
           /\ files = {SummaryFile, HistogramFile, BoxplotFile, BarplotFile}
           /\ AnovaFile \notin files
           /\ ~anova.returned
    /\ FailedAt("load") => files = {}
    /\ pc \notin {"failed", "done"} => files = WrittenBefore(pc)

\* The ANOVA has failed after the summary and the three images were written.
C10_Witness ==
    /\ FailedAt("anova")
    /\ err = "TypeError"
    /\ Cardinality(files) = 4

====
